---- MODULE Spec2Model ----
(***************************************************************************)
(* A model of the interactive vault session of src/src/lib/Vault.py.       *)
(*                                                                         *)
(* A state is the Vault object's fields (vault, masterKey, timer), the     *)
(* file on disk, the clock, and the place where the session waits for the  *)
(* user: every action is the code that runs from one user input to the    *)
(* next prompt (or to the return to the caller's menu).  Suspended frames  *)
(* of the recursive retries of addItemInput and editItemInput are kept in  *)
(* `stack`.                                                                *)
(*                                                                         *)
(* Helpers the class calls but whose bodies are not part of Vault.py as    *)
(* given (saveVault, unlock, lock, setAutoLockTimer,                       *)
(* checkThenSetAutoLockTimer, categoryCheckId, categoryName, input) are    *)
(* modelled from the specification's sections 4.4 - 4.7.                   *)
(***************************************************************************)
EXTENDS Integers, Sequences, FiniteSets, TLC

(***************************************************************************)
(* Bounds of the model.                                                    *)
(***************************************************************************)
MaxSecrets == 2      \* cap on the number of secrets appended
MaxRetry == 2        \* cap on the depth of the recursive retries
MaxTime == 1         \* cap on the clock
AutoLockTTL == 0     \* config['autoLockTTL'], seconds
MaxFailures == 1     \* cap on the number of failed saves in a session

(***************************************************************************)
(* Program constants.                                                      *)
(***************************************************************************)
MinKeyLen == 8       \* len(newMasterKey) < 8

None == [none |-> TRUE]        \* Python's None for self.vault
NoKey == "<None>"              \* Python's None for self.masterKey

(***************************************************************************)
(* Text.  Searchable text is a sequence of one-character strings so that   *)
(* upper() and the substring test `in` are computed, not assumed.          *)
(***************************************************************************)
UpperChar(c) ==
    CASE c = "a" -> "A"
      [] c = "b" -> "B"
      [] c = "e" -> "E"
      [] c = "o" -> "O"
      [] c = "w" -> "W"
      [] c = "x" -> "X"
      [] c = "z" -> "Z"
      [] OTHER -> c

Upper(s) == [i \in 1..Len(s) |-> UpperChar(s[i])]

\* Python's `needle in hay` for strings
Contains(needle, hay) ==
    \E i \in 0..(Len(hay) - Len(needle)) :
        SubSeq(hay, i + 1, i + Len(needle)) = needle

Digits == {"0", "1", "2", "7"}

DigitValue(c) ==
    CASE c = "0" -> 0
      [] c = "1" -> 1
      [] c = "2" -> 2
      [] c = "7" -> 7
      [] OTHER -> 0

\* str.isdigit(): non-empty and every character a digit
IsDigit(s) == Len(s) > 0 /\ \A i \in 1..Len(s) : s[i] \in Digits

RECURSIVE ParseInt(_)
\* int(s) for a string of digits
ParseInt(s) ==
    IF Len(s) = 0 THEN 0
    ELSE 10 * ParseInt(SubSeq(s, 1, Len(s) - 1)) + DigitValue(s[Len(s)])

\* command.lower() for the one-letter commands of the menus
LowerCmd(c) ==
    CASE c = "L" -> "l"
      [] c = "P" -> "p"
      [] c = "O" -> "o"
      [] c = "E" -> "e"
      [] c = "D" -> "d"
      [] c = "N" -> "n"
      [] c = "C" -> "c"
      [] c = "B" -> "b"
      [] OTHER -> c

(***************************************************************************)
(* Python list indexing: a negative index counts from the end.             *)
(***************************************************************************)
PyValidStrict(seq, i) == 0 <= i /\ i < Len(seq)

PyValid(seq, i) == -Len(seq) <= i /\ i < Len(seq)

PyPos(seq, i) == IF i < 0 THEN i + Len(seq) + 1 ELSE i + 1

PyGet(seq, i) == seq[PyPos(seq, i)]

\* a pop() that ignores its index and removes the last item
PyPopLast(seq, i) == SubSeq(seq, 1, Len(seq) - 1)

\* list.pop(i)
PyPop(seq, i) ==
    SubSeq(seq, 1, PyPos(seq, i) - 1) \o SubSeq(seq, PyPos(seq, i) + 1, Len(seq))

\* seq[i][field] = value
PySetField(seq, i, field, value) ==
    [seq EXCEPT ![PyPos(seq, i)] = [@ EXCEPT ![field] = value]]

(***************************************************************************)
(* Inputs the user may type.                                               *)
(***************************************************************************)
KeyboardInterrupt == "<KeyboardInterrupt>"

TheCategories == << [id |-> <<"1">>, name |-> <<"W", "e", "b">>] >>

InitialVaults ==
    { [categories |-> TheCategories, secrets |-> <<>>],
      [categories |-> <<>>, secrets |-> <<>>] }

CategoryInputs == { <<>>, <<"1">>, <<"9">> }

FieldInputs ==
    { [name |-> <<"a", "B">>, login |-> <<"z">>, password |-> <<"p">>, notes |-> <<>>],
      [name |-> <<"7">>, login |-> <<"z">>, password |-> <<"p">>, notes |-> <<>>] }

\* the new values typed in editItemInput, by field
NameInputs == { <<"7">> }

LoginInputs == { <<"z">> }

PasswordInputs == { <<"p">> }

NotesInputs == { <<>> }

InitialKey == "hunter2"

KeyInputs == {"short7c", "eightchr"}

Passphrases == KeyInputs \cup {InitialKey}

VARIABLES
    vault,       \* self.vault: None, or [categories, secrets]
    masterKey,   \* self.masterKey
    timer,       \* self.timer: time of the last activity
    disk,        \* the vault file: the key it is encrypted under and its content
    now,         \* int(time.time())
    pc,          \* the prompt the session waits at
    itemKey,     \* itemMenu / itemEdit / editItemInput / itemDelete: itemKey
    fieldName,   \* editItemInput: fieldName
    searchResultItems,  \* search: searchResultItems, result number -> vault index
    categoryId,  \* addItemInput: categoryId of the running frame
    stack,       \* rejected category ids of the suspended (outer) frames, innermost first
    out,         \* the last status message printed
    last,        \* the last handler step taken and its input (observation only)
    saveFailed,  \* a saveVault failed and none has succeeded since (observation only)
    failures,    \* the number of saves that have failed (bounds the environment)
    clipboard,   \* the content of the system clipboard
    clipboardSignature  \* self.clipboardSignature: hash of the value copied

vars == <<vault, masterKey, timer, disk, now, pc, itemKey, fieldName,
          searchResultItems, categoryId, stack, out, last, saveFailed, failures,
          clipboard, clipboardSignature>>

Unlocked == vault # None

Secrets == IF Unlocked THEN vault.secrets ELSE <<>>

(***************************************************************************)
(* Helpers modelled from the specification.                                *)
(***************************************************************************)
\* categoryCheckId(id): id references an existing category
categoryCheckId(v, id) == \E i \in 1..Len(v.categories) : v.categories[i].id = id

\* categoryName(id): the name of the referenced category, empty if none
categoryName(v, id) ==
    IF categoryCheckId(v, id)
    THEN (CHOOSE c \in {v.categories[i] : i \in 1..Len(v.categories)} : c.id = id).name
    ELSE <<>>

\* the deadline test of the idle check: now > timer + TTL
Expired == now > timer + AutoLockTTL

\* the file written by saveVault: the whole vault under the live key
Encrypt(v, key) == [key |-> key, content |-> v]

\* what a call of saveVault leaves behind in the observation variables; the
\* environment lets at most MaxFailures saves fail
SaveOutcome(attempted, raised) ==
    /\ raised => failures < MaxFailures
    /\ saveFailed' = IF attempted THEN raised ELSE saveFailed
    /\ failures' = IF raised THEN failures + 1 ELSE failures

\* the signature stored with a copy: a hash of the value, taken as free of
\* collisions
getSignature(value) == <<"hash", value>>

\* the copy of itemCopyToClipboard: the value is written to the clipboard and
\* its signature stored
clipboardCopy(value) == [clipboard |-> value, clipboardSignature |-> getSignature(value)]

\* the scheduled clear: the clipboard is emptied if its content still has the
\* stored signature and left alone otherwise
clipboardErase(content, signature) ==
    IF getSignature(content) = signature THEN <<>> ELSE content

\* what another program may put on the clipboard meanwhile
ExternalClips == { <<"n", "e", "w">> }

Init ==
    /\ vault = None
    /\ masterKey = NoKey
    /\ timer = 0
    /\ disk \in {Encrypt(v, InitialKey) : v \in InitialVaults}
    /\ now = 0
    /\ pc = "unlock"
    /\ itemKey = 0
    /\ fieldName = ""
    /\ searchResultItems = <<>>
    /\ categoryId = <<>>
    /\ stack = <<>>
    /\ out = ""
    /\ last = [op |-> "init", arg |-> ""]
    /\ saveFailed = FALSE
    /\ failures = 0
    /\ clipboard = <<>>
    /\ clipboardSignature = None

(***************************************************************************)
(* The session's top level (the caller of the Vault methods): unlock, lock *)
(* and the passing of time.                                                *)
(***************************************************************************)
\* unlock(): load the file, decrypt it with the passphrase entered; then the
\* menu, or back into changeKey (unlock(False) at lines 478 and 502)
Unlock(p) ==
    /\ pc \in {"unlock", "unlock:changeKey", "unlock:done"}
    /\ IF p = disk.key
       THEN /\ vault' = disk.content
            /\ masterKey' = p
            /\ timer' = now
            /\ pc' = CASE pc = "unlock:changeKey" -> "changeKey"
                        [] pc = "unlock:done" -> "exit"
                        [] OTHER -> "menu"
            /\ out' = ""
            /\ saveFailed' = FALSE
       ELSE /\ out' = "AuthenticationFailed"
            /\ UNCHANGED <<vault, masterKey, timer, pc, saveFailed>>
    /\ last' = [op |-> "unlock", arg |-> p = disk.key]
    /\ UNCHANGED <<disk, now, itemKey, fieldName, searchResultItems, categoryId, stack,
                   failures>>
    /\ UNCHANGED <<clipboard, clipboardSignature>>

\* lock(): discard the decrypted vault and the key
Lock ==
    /\ pc = "menu"
    /\ vault' = None
    /\ masterKey' = NoKey
    /\ pc' = "unlock"
    /\ out' = ""
    /\ last' = [op |-> "lock", arg |-> ""]
    /\ UNCHANGED <<timer, disk, now, itemKey, fieldName, searchResultItems, categoryId,
                   stack, saveFailed, failures>>
    /\ UNCHANGED <<clipboard, clipboardSignature>>

\* a second passes while the session waits at a prompt
Tick ==
    /\ pc \notin {"crashed", "exit"}
    /\ now < MaxTime
    /\ now' = now + 1
    /\ UNCHANGED <<vault, masterKey, timer, disk, pc, itemKey, fieldName,
                   searchResultItems, categoryId, stack, out, last, saveFailed, failures>>
    /\ UNCHANGED <<clipboard, clipboardSignature>>

\* checkThenSetAutoLockTimer(), then the prompt `target` of the enclosing loop:
\* past the deadline the vault is locked and the session asks for the key again
LoopTop(target) ==
    /\ timer' = now
    /\ IF Expired
       THEN /\ vault' = None
            /\ masterKey' = NoKey
            /\ pc' = "unlock"
            /\ itemKey' = 0
            /\ searchResultItems' = <<>>
       ELSE /\ pc' = target
            /\ UNCHANGED <<vault, masterKey, itemKey, searchResultItems>>

\* the method called from the menu returns: its locals are gone
ToMenu ==
    /\ pc' = "menu"
    /\ itemKey' = 0
    /\ fieldName' = ""
    /\ searchResultItems' = <<>>

(***************************************************************************)
(* addItemInput and addItem                                                *)
(***************************************************************************)
\* an addItem that appends and does not call saveVault()
addItemNoSave(v, cat, f, ok) ==
    [vault |-> [v EXCEPT !.secrets = Append(@,
                  [category |-> cat, name |-> f.name, login |-> f.login,
                   password |-> f.password, notes |-> f.notes])],
     disk |-> disk,
     raised |-> FALSE]

\* addItem(categoryId, name, login, password, notes): append, then saveVault()
addItem(v, cat, f, ok) ==
    LET v1 == [v EXCEPT !.secrets = Append(@,
                  [category |-> cat, name |-> f.name, login |-> f.login,
                   password |-> f.password, notes |-> f.notes])]
    IN [vault |-> v1,
        disk |-> IF ok THEN Encrypt(v1, masterKey) ELSE disk,
        raised |-> ~ok]

\* a frame of addItemInput returns: to the caller's menu, or into the frame that
\* recursed at line 62, which goes on to line 68 with its own categoryId
AddReturn ==
    IF stack = <<>>
    THEN /\ pc' = "menu"
         /\ categoryId' = <<>>
         /\ stack' = stack
    ELSE /\ pc' = "addFields"
         /\ categoryId' = Head(stack)
         /\ stack' = Tail(stack)

\* addItemInput() up to its first prompt
AddItemInput ==
    /\ pc = "menu"
    /\ Unlocked
    /\ timer' = now
    /\ pc' = IF vault.categories # <<>> THEN "addCategory" ELSE "addFields"
    /\ categoryId' = <<>>
    /\ out' = ""
    /\ last' = [op |-> "addItemInput", arg |-> ""]
    /\ UNCHANGED <<vault, masterKey, disk, now, itemKey, fieldName, searchResultItems,
                   stack, saveFailed, failures>>
    /\ UNCHANGED <<clipboard, clipboardSignature>>

\* the answer to 'Choose a category number', lines 46-62
AddCategoryInput(c) ==
    /\ pc = "addCategory"
    /\ last' = [op |-> "addCategory", arg |-> c]
    /\ IF c # <<>> /\ ~categoryCheckId(vault, c)
       THEN /\ Len(stack) < MaxRetry
            /\ out' = "Invalid category. Please try again."
            /\ stack' = <<c>> \o stack
            /\ timer' = now
            /\ UNCHANGED <<pc, categoryId>>
       ELSE /\ categoryId' = c
            /\ pc' = "addFields"
            /\ out' = ""
            /\ UNCHANGED <<stack, timer>>
    /\ UNCHANGED <<vault, masterKey, disk, now, itemKey, fieldName, searchResultItems,
                   saveFailed, failures>>
    /\ UNCHANGED <<clipboard, clipboardSignature>>

\* KeyboardInterrupt at the category prompt: return, line 54
AddCategoryCancel ==
    /\ pc = "addCategory"
    /\ AddReturn
    /\ out' = ""
    /\ last' = [op |-> "addCancel", arg |-> "category"]
    /\ UNCHANGED <<vault, masterKey, timer, disk, now, itemKey, fieldName,
                   searchResultItems, saveFailed, failures>>
    /\ UNCHANGED <<clipboard, clipboardSignature>>

\* the answers to the name, login, password and notes prompts, then lines 87-93;
\* an exception of saveVault leaves addItemInput and ends the session
AddFieldsInput(f, ok) ==
    /\ pc = "addFields"
    /\ Len(vault.secrets) < MaxSecrets
    /\ LET r == addItem(vault, categoryId, f, ok) IN
        /\ vault' = r.vault
        /\ disk' = r.disk
        /\ SaveOutcome(TRUE, r.raised)
        /\ last' = [op |-> "addItem", arg |-> categoryId]
        /\ IF r.raised
           THEN /\ pc' = "crashed"
                /\ out' = "PersistenceError"
                /\ UNCHANGED <<categoryId, stack>>
           ELSE /\ out' = "The new item has been saved to your vault."
                /\ AddReturn
    /\ UNCHANGED <<masterKey, timer, now, itemKey, fieldName, searchResultItems>>
    /\ UNCHANGED <<clipboard, clipboardSignature>>

\* KeyboardInterrupt at one of the prompts of lines 69-83: return, line 85
AddFieldsCancel ==
    /\ pc = "addFields"
    /\ AddReturn
    /\ out' = ""
    /\ last' = [op |-> "addCancel", arg |-> "fields"]
    /\ UNCHANGED <<vault, masterKey, timer, disk, now, itemKey, fieldName,
                   searchResultItems, saveFailed, failures>>
    /\ UNCHANGED <<clipboard, clipboardSignature>>

(***************************************************************************)
(* get, itemMenu, itemCopyToClipboard, itemShowSecret                      *)
(***************************************************************************)
\* the body of get(id), lines 120-148; `op` and `arg` name the calling step.
\* Line 121 sets the timer, so the check at the top of itemMenu's loop passes.
get(id, op, arg) ==
    /\ timer' = now
    /\ last' = [op |-> op, arg |-> arg]
    /\ fieldName' = ""
    /\ IF PyValid(vault.secrets, id)
       THEN /\ out' = "item shown"
            /\ itemKey' = id
            /\ pc' = "itemMenu"
       ELSE /\ out' = "Item does not exist."
            /\ pc' = "menu"
            /\ itemKey' = 0

GetIds == (0 - 1)..MaxSecrets

\* get(id) called from the caller's menu
Get(id) ==
    /\ pc = "menu"
    /\ Unlocked
    /\ get(id, "get", id)
    /\ UNCHANGED <<vault, masterKey, disk, now, searchResultItems, categoryId, stack,
                   saveFailed, failures>>
    /\ UNCHANGED <<clipboard, clipboardSignature>>

MenuCommands == {"l", "p", "o", "e", "d", "s", "x", "E"}

\* the commands that copy to the clipboard; the sessions of Spec leave the
\* clipboard alone, those of ClipboardSpec use it
CopyCommands == {"l", "p"}

\* an itemCopyToClipboard that writes the clipboard and keeps the old signature
itemCopyToClipboardNoSignature(item) ==
    /\ clipboard' = item
    /\ pc' = "clipboardWait"
    /\ UNCHANGED <<vault, masterKey, timer, itemKey, fieldName, searchResultItems,
                   clipboardSignature>>

\* itemCopyToClipboard(item, name), lines 197-200, up to the wait of
\* waitAndEraseClipboard
itemCopyToClipboard(item) ==
    /\ clipboard' = clipboardCopy(item).clipboard
    /\ clipboardSignature' = clipboardCopy(item).clipboardSignature
    /\ pc' = "clipboardWait"
    /\ UNCHANGED <<vault, masterKey, timer, itemKey, fieldName, searchResultItems>>

\* a command entered at the prompt of itemMenu, lines 173-190
ItemMenuCommand(command) ==
    /\ pc = "itemMenu"
    /\ last' = [op |-> "itemMenu", arg |-> LowerCmd(command), at |-> now]
    /\ LET c == LowerCmd(command) IN
       CASE c = "l" ->
              /\ out' = "* The login has been copied to the clipboard."
              /\ itemCopyToClipboard(PyGet(vault.secrets, itemKey).login)
         [] c = "p" ->
              /\ out' = "* The password has been copied to the clipboard."
              /\ itemCopyToClipboard(PyGet(vault.secrets, itemKey).password)
         [] c = "o" ->
              /\ out' = "The password is shown"
              /\ pc' = "showSecret"
              /\ UNCHANGED <<vault, masterKey, timer, itemKey, fieldName,
                             searchResultItems, clipboard, clipboardSignature>>
         [] c = "e" ->
              /\ out' = ""
              /\ LoopTop("itemEdit")
              /\ UNCHANGED <<fieldName, clipboard, clipboardSignature>>
         [] c = "d" ->
              /\ IF PyValid(vault.secrets, itemKey)
                 THEN /\ pc' = "confirmDelete"
                      /\ out' = ""
                      /\ UNCHANGED <<itemKey, fieldName, searchResultItems>>
                 ELSE /\ ToMenu
                      /\ out' = "Item does not exist."
              /\ UNCHANGED <<vault, masterKey, timer, clipboard, clipboardSignature>>
         [] c \in {"s", "b", "q"} ->
              /\ out' = ""
              /\ ToMenu
              /\ UNCHANGED <<vault, masterKey, timer, clipboard, clipboardSignature>>
         [] OTHER ->
              /\ out' = ""
              /\ LoopTop("itemMenu")
              /\ UNCHANGED <<fieldName, clipboard, clipboardSignature>>
    /\ UNCHANGED <<disk, now, categoryId, stack, saveFailed, failures>>

\* KeyboardInterrupt at the prompt of itemMenu or of itemEdit: back to the menu
MenuInterrupt ==
    /\ pc \in {"itemMenu", "itemEdit"}
    /\ ToMenu
    /\ out' = ""
    /\ last' = [op |-> "interrupt", arg |-> pc]
    /\ UNCHANGED <<vault, masterKey, timer, disk, now, categoryId, stack, saveFailed,
                   failures>>
    /\ UNCHANGED <<clipboard, clipboardSignature>>

\* another program writes to the clipboard while the copy waits to be erased
ClipboardChanged(content) ==
    /\ pc = "clipboardWait"
    /\ clipboard # content
    /\ clipboard' = content
    /\ last' = [op |-> "clipboardChanged", arg |-> content]
    /\ UNCHANGED <<vault, masterKey, timer, disk, now, pc, itemKey, fieldName,
                   searchResultItems, categoryId, stack, out, saveFailed, failures,
                   clipboardSignature>>

\* waitAndEraseClipboard() ends, line 200: the scheduled clear fires and
\* itemMenu's loop goes round
WaitAndEraseClipboard ==
    /\ pc = "clipboardWait"
    /\ clipboard' = clipboardErase(clipboard, clipboardSignature)
    /\ last' = [op |-> "clipboardErase", arg |-> clipboard]
    /\ LoopTop("itemMenu")
    /\ UNCHANGED <<disk, now, fieldName, categoryId, stack, out, saveFailed, failures,
                   clipboardSignature>>

\* an itemShowSecret whose except branch returns without masking
itemShowSecretNoMask(interrupted) ==
    IF interrupted THEN "The password is shown" ELSE "The password is masked"

\* itemShowSecret, lines 207-217: what the password line shows when the method
\* returns; the except branch (line 213) passes and line 217 runs either way
itemShowSecret(interrupted) == "The password is masked"

\* itemShowSecret: the sleep ends or is interrupted, the password is masked,
\* and itemMenu's loop goes round
ShowSecretEnd(interrupted) ==
    /\ pc = "showSecret"
    /\ out' = itemShowSecret(interrupted)
    /\ last' = [op |-> "itemShowSecret", arg |-> interrupted]
    /\ LoopTop("itemMenu")
    /\ UNCHANGED <<disk, now, fieldName, categoryId, stack, saveFailed, failures>>
    /\ UNCHANGED <<clipboard, clipboardSignature>>

(***************************************************************************)
(* itemEdit, editItemInput                                                 *)
(***************************************************************************)
EditField(c) ==
    CASE c = "c" -> "category"
      [] c = "n" -> "name"
      [] c = "l" -> "login"
      [] c = "p" -> "password"
      [] c = "o" -> "notes"
      [] OTHER -> ""

EditCommands == {"c", "n", "l", "p", "o", "b", "x", "C"}

\* a command entered at the prompt of itemEdit, lines 242-263; a field command
\* enters editItemInput, which sets the timer (line 271) and prompts
ItemEditCommand(command) ==
    /\ pc = "itemEdit"
    /\ last' = [op |-> "itemEdit", arg |-> LowerCmd(command)]
    /\ out' = ""
    /\ LET c == LowerCmd(command) IN
       IF EditField(c) # ""
       THEN /\ fieldName' = EditField(c)
            /\ timer' = now
            /\ pc' = "editInput"
            /\ UNCHANGED <<vault, masterKey, itemKey, searchResultItems>>
       ELSE IF c = "b"
       THEN /\ ToMenu
            /\ UNCHANGED <<vault, masterKey, timer>>
       ELSE /\ LoopTop("itemEdit")
            /\ UNCHANGED fieldName
    /\ UNCHANGED <<disk, now, categoryId, stack, saveFailed, failures>>
    /\ UNCHANGED <<clipboard, clipboardSignature>>

RECURSIVE ApplyWrites(_, _, _, _)
\* self.vault['secrets'][itemKey][fieldName] = value, for each value in turn
ApplyWrites(secrets, key, field, values) ==
    IF values = <<>> THEN secrets
    ELSE ApplyWrites(PySetField(secrets, key, field, Head(values)), key, field,
                     Tail(values))

\* lines 315-324 in the running frame and then in every suspended frame: each
\* writes its own fieldNewValue and calls saveVault(); a failed save raises
editWrites(v, key, field, values, ok) ==
    IF values = <<>>
    THEN [vault |-> v, disk |-> disk, raised |-> FALSE, saved |-> FALSE]
    ELSE IF ok
    THEN LET v1 == [v EXCEPT !.secrets = ApplyWrites(@, key, field, values)]
         IN [vault |-> v1, disk |-> Encrypt(v1, masterKey), raised |-> FALSE,
             saved |-> TRUE]
    ELSE [vault |-> [v EXCEPT !.secrets = ApplyWrites(@, key, field, <<Head(values)>>)],
          disk |-> disk, raised |-> TRUE, saved |-> TRUE]

\* the frames of editItemInput finish; an exception of saveVault is caught by
\* get (line 146), under which itemMenu runs
EditFinish(values, ok) ==
    LET r == editWrites(vault, itemKey, fieldName, values, ok) IN
    /\ vault' = r.vault
    /\ disk' = r.disk
    /\ SaveOutcome(r.saved, r.raised)
    /\ out' = IF r.raised THEN "Item does not exist."
              ELSE IF r.saved THEN "The item has been updated." ELSE ""
    /\ stack' = <<>>
    /\ ToMenu

EditValues(field) ==
    CASE field = "category" -> CategoryInputs
      [] field = "name" -> NameInputs
      [] field = "login" -> LoginInputs
      [] field = "password" -> PasswordInputs
      [] OTHER -> NotesInputs

AllEditValues == CategoryInputs \cup NameInputs \cup LoginInputs \cup PasswordInputs
                     \cup NotesInputs

\* the new value entered in editItemInput, lines 277-324
EditInput(value, ok) ==
    /\ pc = "editInput"
    /\ value \in EditValues(fieldName)
    /\ last' = [op |-> "editItemInput", arg |-> <<fieldName, value>>]
    /\ IF fieldName = "category" /\ value # <<>> /\ ~categoryCheckId(vault, value)
       THEN /\ Len(stack) < MaxRetry
            /\ ok
            /\ out' = "Invalid category. Please try again."
            /\ stack' = <<value>> \o stack
            /\ timer' = now
            /\ UNCHANGED <<vault, disk, saveFailed, failures, pc, itemKey, fieldName,
                           searchResultItems>>
       ELSE /\ EditFinish(<<value>> \o stack, ok)
            /\ UNCHANGED timer
    /\ UNCHANGED <<masterKey, now, categoryId>>
    /\ UNCHANGED <<clipboard, clipboardSignature>>

\* KeyboardInterrupt in editItemInput: the running frame returns (line 313)
EditCancel(ok) ==
    /\ pc = "editInput"
    /\ stack = <<>> => ok
    /\ last' = [op |-> "editCancel", arg |-> fieldName]
    /\ EditFinish(stack, ok)
    /\ UNCHANGED <<masterKey, timer, now, categoryId>>
    /\ UNCHANGED <<clipboard, clipboardSignature>>

(***************************************************************************)
(* itemDelete                                                              *)
(***************************************************************************)
\* lines 337-344: pop(itemKey), saveVault(); any exception is caught
itemDelete(v, key, confirmed, ok) ==
    IF ~confirmed
    THEN [vault |-> v, disk |-> disk, raised |-> FALSE, saved |-> FALSE]
    ELSE LET v1 == [v EXCEPT !.secrets = PyPop(@, key)]
         IN [vault |-> v1,
             disk |-> IF ok THEN Encrypt(v1, masterKey) ELSE disk,
             raised |-> ~ok, saved |-> TRUE]

\* an itemMenu that goes round its loop after itemDelete, keeping itemKey
ItemDeleteConfirmNoReturn(confirmed, ok) ==
    /\ pc = "confirmDelete"
    /\ ~confirmed => ok
    /\ LET r == itemDelete(vault, itemKey, confirmed, ok) IN
        /\ vault' = r.vault
        /\ disk' = r.disk
        /\ SaveOutcome(r.saved, r.raised)
        /\ out' = IF r.raised THEN "Item does not exist." ELSE ""
    /\ pc' = "itemMenu"
    /\ last' = [op |-> "itemDelete", arg |-> <<confirmed, itemKey>>]
    /\ UNCHANGED <<masterKey, timer, now, categoryId, stack, itemKey, fieldName,
                   searchResultItems>>
    /\ UNCHANGED <<clipboard, clipboardSignature>>

\* the answer to 'Confirm deletion?'
ItemDeleteConfirm(confirmed, ok) ==
    /\ pc = "confirmDelete"
    /\ ~confirmed => ok
    /\ LET r == itemDelete(vault, itemKey, confirmed, ok) IN
        /\ vault' = r.vault
        /\ disk' = r.disk
        /\ SaveOutcome(r.saved, r.raised)
        /\ out' = IF r.raised THEN "Item does not exist." ELSE ""
    /\ ToMenu
    /\ last' = [op |-> "itemDelete", arg |-> <<confirmed, itemKey>>]
    /\ UNCHANGED <<masterKey, timer, now, categoryId, stack>>
    /\ UNCHANGED <<clipboard, clipboardSignature>>

(***************************************************************************)
(* search, searchResultSelection                                           *)
(***************************************************************************)
\* a test that forgets the notes
MatchesNoNotes(v, item, search) ==
    \/ Contains(Upper(search), Upper(item.name))
    \/ Contains(Upper(search), Upper(item.login))
    \/ Contains(Upper(search), Upper(categoryName(v, item.category)))

\* the test of lines 397-400 for one item
Matches(v, item, search) ==
    \/ Contains(Upper(search), Upper(item.name))
    \/ Contains(Upper(search), Upper(item.login))
    \/ Contains(Upper(search), Upper(item.notes))
    \/ Contains(Upper(search), Upper(categoryName(v, item.category)))

RECURSIVE SearchScan(_, _, _)
\* the loop of lines 395-414 from the item at position i on: the vault indices
\* of the matching items, in the order the loop appends them
SearchScan(v, search, i) ==
    IF i > Len(v.secrets) THEN <<>>
    ELSE (IF Matches(v, v.secrets[i], search) THEN <<i - 1>> ELSE <<>>)
             \o SearchScan(v, search, i + 1)

\* a numbering that takes the result number, less one, for the vault index
SearchResultsByRank(v, search) ==
    [n \in 1..Len(SearchScan(v, search, 1)) |-> n - 1]

\* a shortcut that takes len(secrets) for an item number too
IsItemNumberOffByOne(v, search) == IsDigit(search) /\ ParseInt(search) <= Len(v.secrets)

\* searchResultItems after the loop: result number n -> vault index
SearchResults(v, search) == SearchScan(v, search, 1)

\* the fat-finger commands of line 375
SearchCommands == { <<"s">>, <<"a">>, <<"l">>, <<"q">> }

\* the digits-only shortcut of lines 382-389 applies
IsItemNumber(v, search) == IsDigit(search) /\ ParseInt(search) < Len(v.secrets)

SearchInputs ==
    { <<>>, <<"a">>, <<"b">>, <<"A">>, <<"B">>, <<"0">>, <<"1">>, <<"7">>, <<"z">>,
      <<"w">>, <<"z", "A">>, <<"x", "x">> }

\* search() up to its prompt
Search ==
    /\ pc = "menu"
    /\ Unlocked
    /\ timer' = now
    /\ pc' = "search"
    /\ out' = ""
    /\ last' = [op |-> "search", arg |-> ""]
    /\ UNCHANGED <<vault, masterKey, disk, now, itemKey, fieldName, searchResultItems,
                   categoryId, stack, saveFailed, failures>>
    /\ UNCHANGED <<clipboard, clipboardSignature>>

\* the query entered at 'Enter search: ', lines 367-434
SearchInput(search) ==
    /\ pc = "search"
    /\ IF search = <<>>
       THEN /\ out' = "Empty search!"
            /\ last' = [op |-> "searchInput", arg |-> search]
            /\ ToMenu
            /\ UNCHANGED timer
       ELSE IF search \in SearchCommands \/ search = <<"b">>
       THEN /\ out' = ""
            /\ last' = [op |-> "searchInput", arg |-> search]
            /\ ToMenu
            /\ UNCHANGED timer
       ELSE IF vault.secrets = <<>>
       THEN /\ out' = "There are no secrets saved yet."
            /\ last' = [op |-> "searchInput", arg |-> search]
            /\ ToMenu
            /\ UNCHANGED timer
       ELSE IF IsItemNumber(vault, search)
       THEN /\ get(ParseInt(search), "searchInput", search)
            /\ UNCHANGED searchResultItems
       ELSE LET results == SearchResults(vault, search) IN
            IF Len(results) = 1
            THEN /\ get(results[1], "searchInput", search)
                 /\ searchResultItems' = results
            ELSE IF Len(results) > 1
            THEN /\ out' = "results shown"
                 /\ last' = [op |-> "searchInput", arg |-> search]
                 /\ searchResultItems' = results
                 /\ timer' = now
                 /\ pc' = "searchSelect"
                 /\ UNCHANGED <<itemKey, fieldName>>
            ELSE /\ out' = "No results!"
                 /\ last' = [op |-> "searchInput", arg |-> search]
                 /\ ToMenu
                 /\ UNCHANGED timer
    /\ UNCHANGED <<vault, masterKey, disk, now, categoryId, stack, saveFailed, failures>>
    /\ UNCHANGED <<clipboard, clipboardSignature>>

\* KeyboardInterrupt at the prompt of search or of searchResultSelection
SearchCancel ==
    /\ pc \in {"search", "searchSelect"}
    /\ ToMenu
    /\ out' = ""
    /\ last' = [op |-> "interrupt", arg |-> pc]
    /\ UNCHANGED <<vault, masterKey, timer, disk, now, categoryId, stack, saveFailed,
                   failures>>
    /\ UNCHANGED <<clipboard, clipboardSignature>>

SelectionInputs == { <<"1">>, <<"2">>, <<"0">>, <<"z">>, <<>> }

\* the answer to 'Select a result #', lines 458-467: int() of anything but
\* digits raises, and so does a number that is no key of searchResultItems
SearchResultSelection(resultItem) ==
    /\ pc = "searchSelect"
    /\ IF IsDigit(resultItem) /\ ParseInt(resultItem) \in DOMAIN searchResultItems
       THEN /\ get(searchResultItems[ParseInt(resultItem)], "searchResultSelection",
                   resultItem)
            /\ UNCHANGED searchResultItems
       ELSE /\ out' = ""
            /\ last' = [op |-> "searchResultSelection", arg |-> resultItem]
            /\ ToMenu
            /\ UNCHANGED timer
    /\ UNCHANGED <<vault, masterKey, disk, now, categoryId, stack, saveFailed, failures>>
    /\ UNCHANGED <<clipboard, clipboardSignature>>

(***************************************************************************)
(* changeKey                                                               *)
(***************************************************************************)
\* a changeKey whose length test is off by one
WeakKeyOffByOne(newMasterKey) == Len(newMasterKey) < MinKeyLen - 1

\* len(newMasterKey) < 8
WeakKey(newMasterKey) == Len(newMasterKey) < MinKeyLen

\* a changeKey that does not compare the new key with its confirmation
changeKeyNoConfirm(v, newMasterKey, newMasterKeyRepeat, ok) ==
    IF WeakKey(newMasterKey)
    THEN [masterKey |-> masterKey, disk |-> disk, raised |-> FALSE, saved |-> FALSE,
          out |-> "The master key should be at least 8 characters. Please try again!"]
    ELSE [masterKey |-> newMasterKey,
          disk |-> IF ok THEN Encrypt(v, newMasterKey) ELSE disk,
          raised |-> ~ok, saved |-> TRUE,
          out |-> IF ok THEN "Your master key has been updated." ELSE "PersistenceError"]

\* lines 487-508 for one pair of answers: the live key, the file and whether
\* saveVault raised
changeKey(v, newMasterKey, newMasterKeyRepeat, ok) ==
    IF WeakKey(newMasterKey)
    THEN [masterKey |-> masterKey, disk |-> disk, raised |-> FALSE, saved |-> FALSE,
          out |-> "The master key should be at least 8 characters. Please try again!"]
    ELSE IF newMasterKey = newMasterKeyRepeat
    THEN [masterKey |-> newMasterKey,
          disk |-> IF ok THEN Encrypt(v, newMasterKey) ELSE disk,
          raised |-> ~ok, saved |-> TRUE,
          out |-> IF ok THEN "Your master key has been updated." ELSE "PersistenceError"]
    ELSE [masterKey |-> masterKey, disk |-> disk, raised |-> FALSE, saved |-> FALSE,
          out |-> "The master key does not match its confirmation. Please try again!"]

\* a changeKey that asks for the new key without unlocking first
ChangeKeyNoUnlock ==
    /\ pc = "unlock"
    /\ ~Unlocked
    /\ pc' = "changeKey"
    /\ out' = ""
    /\ last' = [op |-> "changeKey", arg |-> ""]
    /\ UNCHANGED <<vault, masterKey, timer, disk, now, itemKey, fieldName,
                   searchResultItems, categoryId, stack, saveFailed, failures>>
    /\ UNCHANGED <<clipboard, clipboardSignature>>

\* changeKey() called on a locked vault, which is unlocked first (line 478)
ChangeKey ==
    /\ pc = "unlock"
    /\ ~Unlocked
    /\ pc' = "unlock:changeKey"
    /\ out' = ""
    /\ last' = [op |-> "changeKey", arg |-> ""]
    /\ UNCHANGED <<vault, masterKey, timer, disk, now, itemKey, fieldName,
                   searchResultItems, categoryId, stack, saveFailed, failures>>
    /\ UNCHANGED <<clipboard, clipboardSignature>>

\* the new master key and its confirmation; a rejected pair recurses into
\* changeKey, which prompts again, and the frames return one after the other
\* once the innermost has finished
ChangeKeyInput(newMasterKey, newMasterKeyRepeat, ok) ==
    /\ pc = "changeKey"
    /\ LET r == changeKey(vault, newMasterKey, newMasterKeyRepeat, ok) IN
        /\ ~r.saved => ok
        /\ masterKey' = r.masterKey
        /\ disk' = r.disk
        /\ out' = r.out
        /\ SaveOutcome(r.saved, r.raised)
        /\ pc' = IF r.raised THEN "crashed"
                 ELSE IF r.saved THEN "unlock:done" ELSE "changeKey"
    /\ last' = [op |-> "changeKeyInput", arg |-> <<newMasterKey, newMasterKeyRepeat>>]
    /\ UNCHANGED <<vault, timer, now, itemKey, fieldName, searchResultItems, categoryId,
                   stack>>
    /\ UNCHANGED <<clipboard, clipboardSignature>>

Next ==
    \/ \E p \in Passphrases : Unlock(p)
    \/ Lock
    \/ Tick
    \/ AddItemInput
    \/ \E c \in CategoryInputs : AddCategoryInput(c)
    \/ AddCategoryCancel
    \/ \E f \in FieldInputs, ok \in BOOLEAN : AddFieldsInput(f, ok)
    \/ AddFieldsCancel
    \/ \E id \in GetIds : Get(id)
    \/ \E c \in MenuCommands \ CopyCommands : ItemMenuCommand(c)
    \/ MenuInterrupt
    \/ \E i \in BOOLEAN : ShowSecretEnd(i)
    \/ \E c \in EditCommands : ItemEditCommand(c)
    \/ \E v \in AllEditValues, ok \in BOOLEAN : EditInput(v, ok)
    \/ \E ok \in BOOLEAN : EditCancel(ok)
    \/ \E c \in BOOLEAN, ok \in BOOLEAN : ItemDeleteConfirm(c, ok)
    \/ Search
    \/ \E q \in SearchInputs : SearchInput(q)
    \/ SearchCancel
    \/ \E r \in SelectionInputs : SearchResultSelection(r)
    \/ ChangeKey
    \/ \E k \in KeyInputs, r \in KeyInputs, ok \in BOOLEAN : ChangeKeyInput(k, r, ok)

Spec == Init /\ [][Next]_vars

(***************************************************************************)
(* The search on its own: a session that has just unlocked a file holding  *)
(* one of a few vaults with text in every searched field.                  *)
(***************************************************************************)
SearchItem1 ==
    [category |-> <<"1">>, name |-> <<"a", "B">>, login |-> <<"z">>,
     password |-> <<"p">>, notes |-> <<>>]

SearchItem2 ==
    [category |-> <<>>, name |-> <<"7">>, login |-> <<"B", "o", "b">>,
     password |-> <<"p">>, notes |-> <<"z", "a">>]

SearchItem3 ==
    [category |-> <<>>, name |-> <<"x">>, login |-> <<"a">>,
     password |-> <<"p">>, notes |-> <<>>]

SearchVaults ==
    { [categories |-> TheCategories, secrets |-> secrets] :
        secrets \in { <<>>, <<SearchItem1>>, <<SearchItem2, SearchItem1>>,
                      <<SearchItem1, SearchItem2, SearchItem3>>,
                      <<SearchItem3, SearchItem3, SearchItem1>>,
                      <<SearchItem3, SearchItem1, SearchItem2>> } }

SearchInit ==
    /\ vault \in SearchVaults
    /\ masterKey = InitialKey
    /\ timer = 0
    /\ disk = Encrypt(vault, InitialKey)
    /\ now = 0
    /\ pc = "menu"
    /\ itemKey = 0
    /\ fieldName = ""
    /\ searchResultItems = <<>>
    /\ categoryId = <<>>
    /\ stack = <<>>
    /\ out = ""
    /\ last = [op |-> "unlock", arg |-> TRUE]
    /\ saveFailed = FALSE
    /\ failures = 0
    /\ clipboard = <<>>
    /\ clipboardSignature = None

SearchNext ==
    \/ Search
    \/ \E q \in SearchInputs : SearchInput(q)
    \/ SearchCancel
    \/ \E r \in SelectionInputs : SearchResultSelection(r)
    \/ MenuInterrupt
    \/ Tick

SearchSpec == SearchInit /\ [][SearchNext]_vars

(***************************************************************************)
(* The clipboard on its own: a session that has just unlocked a file with  *)
(* secrets in it, copies logins and passwords and shows passwords, while   *)
(* another program may write to the clipboard.                             *)
(***************************************************************************)
ClipboardItem ==
    [category |-> <<>>, name |-> <<"7">>, login |-> <<"n", "e", "w">>,
     password |-> <<"p">>, notes |-> <<>>]

ClipboardVaults ==
    { [categories |-> TheCategories, secrets |-> secrets] :
        secrets \in { <<SearchItem1>>, <<SearchItem1, ClipboardItem>> } }

ClipboardInit ==
    /\ vault \in ClipboardVaults
    /\ masterKey = InitialKey
    /\ timer = 0
    /\ disk = Encrypt(vault, InitialKey)
    /\ now = 0
    /\ pc = "menu"
    /\ itemKey = 0
    /\ fieldName = ""
    /\ searchResultItems = <<>>
    /\ categoryId = <<>>
    /\ stack = <<>>
    /\ out = ""
    /\ last = [op |-> "unlock", arg |-> TRUE]
    /\ saveFailed = FALSE
    /\ failures = 0
    /\ clipboard = <<>>
    /\ clipboardSignature = None

ClipboardNext ==
    \/ \E id \in GetIds : Get(id)
    \/ \E c \in CopyCommands \cup {"o", "b", "x"} : ItemMenuCommand(c)
    \/ \E x \in ExternalClips : ClipboardChanged(x)
    \/ WaitAndEraseClipboard
    \/ \E i \in BOOLEAN : ShowSecretEnd(i)
    \/ MenuInterrupt
    \/ \E p \in Passphrases : Unlock(p)
    \/ Tick

ClipboardSpec == ClipboardInit /\ [][ClipboardNext]_vars

(***************************************************************************)
(* Properties                                                              *)
(***************************************************************************)
CategoryOk(v, item) == item.category = <<>> \/ categoryCheckId(v, item.category)

LastSecret == vault.secrets[Len(vault.secrets)]

\* C1: the secret appended by an add-secret interaction carries no category or
\* the id of an existing category; a category id that categoryCheckId rejected
\* is never stored with a new secret.
C1_AddedCategoryExists ==
    (last.op = "addItem" /\ Unlocked) => CategoryOk(vault, LastSecret)

\* C2: when editItemInput returns from an edit of the category field, the
\* secret's stored category is none of the ids that were entered and rejected.
C2_RejectedCategoryNotWritten ==
    [][(pc = "editInput" /\ fieldName = "category" /\ pc' = "menu")
        => \A n \in 1..Len(stack) :
              PyGet(vault'.secrets, itemKey).category # stack[n]]_vars

\* C3: after an attempt to change the key, whether its save succeeded or failed,
\* the live master key is the key the file on disk is encrypted under.
C3_LiveKeyOpensFile ==
    last.op = "changeKeyInput" => masterKey = disk.key

\* C4: an attempt to change the key to a passphrase of fewer than 8 characters
\* leaves the live master key and the file on disk as they were and saves nothing.
C4_WeakKeyRejected ==
    [][(pc = "changeKey" /\ last'.op = "changeKeyInput" /\ Len(last'.arg[1]) < 8)
        => /\ masterKey' = masterKey
           /\ masterKey' # last'.arg[1]
           /\ disk' = disk
           /\ failures' = failures]_vars

C4_Witness ==
    /\ last.op = "changeKeyInput"
    /\ Len(last.arg[1]) < 8
    /\ last.arg[1] = last.arg[2]
    /\ pc = "changeKey"
    /\ masterKey = InitialKey
    /\ disk.key = InitialKey

Count(seq, x) == Cardinality({n \in 1..Len(seq) : seq[n] = x})

\* C5: a confirmed itemDelete(k) with 0 <= k < len(secrets) leaves one secret
\* fewer, the secrets below k where they were, every secret above k one index
\* lower, and one occurrence fewer of the deleted secret.
C5_IndexShift ==
    [][(/\ pc = "confirmDelete"
        /\ last'.op = "itemDelete"
        /\ last'.arg[1]
        /\ PyValidStrict(vault.secrets, itemKey))
        => LET old == vault.secrets
               new == vault'.secrets
           IN /\ Len(new) = Len(old) - 1
              /\ \A j \in 0..(Len(old) - 1) :
                    /\ j < itemKey => new[j + 1] = old[j + 1]
                    /\ j > itemKey => new[j] = old[j + 1]
              /\ Count(new, old[itemKey + 1]) = Count(old, old[itemKey + 1]) - 1]_vars

C5_Witness ==
    /\ last.op = "itemDelete"
    /\ last.arg = <<TRUE, 0>>
    /\ Unlocked
    /\ Len(vault.secrets) = 1
    /\ vault.secrets[1].name = <<"7">>

\* C6: get(id) with id outside 0 .. len(secrets)-1 reports that the item does
\* not exist and does not open the item menu.
C6_OutOfBoundsNotFound ==
    (last.op = "get" /\ Unlocked /\ ~PyValidStrict(vault.secrets, last.arg))
        => (out = "Item does not exist." /\ pc # "itemMenu")

LowerChar(c) ==
    CASE c = "A" -> "a"
      [] c = "B" -> "b"
      [] c = "E" -> "e"
      [] c = "O" -> "o"
      [] c = "W" -> "w"
      [] c = "X" -> "x"
      [] c = "Z" -> "z"
      [] OTHER -> c

\* text contains query as a substring, letters compared without their case
ContainsIgnoringCase(query, text) ==
    \E k \in 0..(Len(text) - Len(query)) :
        \A n \in 1..Len(query) : LowerChar(text[k + n]) = LowerChar(query[n])

QueryMatches(query, item) ==
    \/ ContainsIgnoringCase(query, item.name)
    \/ ContainsIgnoringCase(query, item.login)
    \/ ContainsIgnoringCase(query, item.notes)
    \/ ContainsIgnoringCase(query, categoryName(vault, item.category))

\* the results of the last search are exactly the matching secrets, by vault
\* index, in increasing order
ExactResults(query) ==
    /\ \A n \in 1..Len(searchResultItems) :
          /\ searchResultItems[n] \in 0..(Len(vault.secrets) - 1)
          /\ QueryMatches(query, vault.secrets[searchResultItems[n] + 1])
    /\ \A i \in 0..(Len(vault.secrets) - 1) :
          QueryMatches(query, vault.secrets[i + 1])
              => \E n \in 1..Len(searchResultItems) : searchResultItems[n] = i
    /\ \A n \in 1..(Len(searchResultItems) - 1) :
          searchResultItems[n] < searchResultItems[n + 1]

\* C7 as stated: for every non-empty query, search yields exactly the secrets
\* whose name, login, notes or category name contains the query, case ignored,
\* in vault order.
C7_EveryQuerySearched ==
    (last.op = "searchInput" /\ last.arg # <<>>) => ExactResults(last.arg)

\* C7 amended: for every non-empty query that is none of the commands s, a, l,
\* q, b and is not the number of an existing item, search yields exactly the
\* secrets whose name, login, notes or category name contains the query, case
\* ignored, in vault order.
C7_SearchedQueriesExact ==
    (/\ last.op = "searchInput"
     /\ last.arg # <<>>
     /\ last.arg \notin { <<"s">>, <<"a">>, <<"l">>, <<"q">>, <<"b">> }
     /\ ~(IsDigit(last.arg) /\ ParseInt(last.arg) < Len(vault.secrets)))
        => ExactResults(last.arg)

C7_Witness ==
    /\ last.op = "searchInput"
    /\ last.arg = <<"A">>
    /\ searchResultItems = <<0, 1, 2>>
    /\ pc = "searchSelect"

\* C8: whenever the session is back at the menu and no save has failed, the
\* content of the file is the vault in memory.
C8_SavedAfterMutation ==
    (pc = "menu" /\ Unlocked /\ ~saveFailed) => disk.content = vault

C8_Witness ==
    /\ pc = "menu"
    /\ last.op = "addItem"
    /\ ~saveFailed
    /\ Len(vault.secrets) = 2
    /\ disk.content = vault

\* C9: every user-initiated operation refreshes the time of the last activity
\* when it starts, so the wait of a show-password display is not counted as idle
\* time: when the show command was entered at the time of the last refresh, the
\* end of the display does not lock the vault.
C9_ShowWaitNotIdle ==
    [][(pc = "showSecret" /\ last.op = "itemMenu" /\ last.at = timer)
        => Unlocked']_vars

\* C11: a step in which saveVault fails tells the caller that persistence
\* failed, not anything else, and keeps the change made in memory: after a
\* confirmed deletion whose save fails the secret is gone from the vault in
\* memory and the message is the persistence failure.
C11_SaveFailureSurfaced ==
    [][failures' > failures
        => /\ out' = "PersistenceError"
           /\ (pc = "confirmDelete" =>
                  vault' = [vault EXCEPT !.secrets = PyPop(@, itemKey)])]_vars

\* C12: itemShowSecret always ends masked: whether the wait runs to its end or
\* is interrupted, the password line shows asterisks when control leaves the
\* display, and the clear password is on screen only during the display.
C12_ShowEndsMasked ==
    /\ [][(pc = "showSecret" /\ pc' # "showSecret")
            => (out' = "The password is masked" /\ last'.op = "itemShowSecret")]_vars
    /\ [](out = "The password is shown" => pc = "showSecret")

C12_Witness ==
    /\ last.op = "itemShowSecret"
    /\ last.arg = TRUE
    /\ out = "The password is masked"
    /\ pc = "itemMenu"

\* C13: key rotation requires the unlocked state: the new key is asked for,
\* the live key replaced and the file written only while a decrypted vault is
\* held, and an unlock that fails inside changeKey leaves the file and the live
\* key as they were.
C13_RotationRequiresUnlocked ==
    /\ [](pc = "changeKey" => Unlocked)
    /\ [][(pc \in {"changeKey", "unlock:changeKey"} /\ disk' # disk)
            => (Unlocked /\ Unlocked' /\ disk'.content = vault)]_vars
    /\ [][(pc = "changeKey" /\ masterKey' # masterKey) => (Unlocked /\ Unlocked')]_vars
    /\ [][(pc = "unlock:changeKey" /\ ~Unlocked')
            => (disk' = disk /\ masterKey' = masterKey /\ pc' = pc)]_vars

C13_Witness ==
    /\ pc = "unlock:changeKey"
    /\ last = [op |-> "unlock", arg |-> FALSE]
    /\ out = "AuthenticationFailed"
    /\ ~Unlocked
    /\ masterKey = NoKey
    /\ disk.key = InitialKey

\* C14: the clear scheduled by a copy empties the clipboard if and only if the
\* clipboard content still has the signature stored with the copy; content
\* written by another program since the copy is left as it is, and a clipboard
\* nobody wrote to since the copy is empty after the clear.
C14_ClearOnlyOwnCopy ==
    [][(pc = "clipboardWait" /\ last'.op = "clipboardErase")
        => /\ (clipboard' = <<>>) <=> (getSignature(clipboard) = clipboardSignature)
           /\ getSignature(clipboard) # clipboardSignature => clipboard' = clipboard
           /\ clipboardSignature' = clipboardSignature
           /\ last.op = "itemMenu" => clipboard' = <<>>]_vars

C14_Witness ==
    /\ last = [op |-> "clipboardErase", arg |-> <<"n", "e", "w">>]
    /\ clipboard = <<"n", "e", "w">>
    /\ clipboardSignature = getSignature(<<"p">>)

\* C15: one add-secret interaction appends at most one secret: once addItem
\* has appended for an invocation of addItemInput, no later step of the same
\* invocation appends again.
C15_OneSecretPerInteraction ==
    [][(pc = "addFields" /\ last.op = "addItem")
        => Len(vault'.secrets) = Len(vault.secrets)]_vars

\* C16: no operation runs against a stale index: an edit or a delete of the item
\* menu ends the menu session (back at the vault menu, itemKey dropped), the
\* edit menu never returns to the item menu, and the item menu is only ever
\* entered through get, with an index that get has just resolved.
C16_NoStaleIndex ==
    /\ [][(/\ pc \in {"editInput", "confirmDelete"}
           /\ last'.op \in {"editItemInput", "editCancel", "itemDelete"}
           /\ pc' # "editInput")
            => (pc' = "menu" /\ itemKey' = 0)]_vars
    /\ [][(pc \in {"itemEdit", "editInput", "confirmDelete"}) => (pc' # "itemMenu")]_vars
    /\ [][(pc' = "itemMenu" /\ pc \notin {"itemMenu", "showSecret", "clipboardWait"})
            => /\ last'.op \in {"get", "searchInput", "searchResultSelection"}
               /\ vault' = vault
               /\ PyValid(vault.secrets, itemKey')]_vars

C16_Witness ==
    /\ last.op = "itemDelete"
    /\ last.arg = <<TRUE, 0>>
    /\ pc = "menu"
    /\ itemKey = 0
    /\ Unlocked
    /\ Len(vault.secrets) = 1
    /\ ~saveFailed

\* C18: a declined deletion changes nothing: when the user does not confirm, or
\* itemKey is outside 0 .. len(secrets)-1, the secrets are left as they were and
\* no save is performed.
C18_DeclinedDeleteNoChange ==
    [][(/\ pc = "confirmDelete"
        /\ last'.op = "itemDelete"
        /\ (~last'.arg[1] \/ ~PyValidStrict(vault.secrets, itemKey)))
        => /\ vault' = vault
           /\ disk' = disk
           /\ failures' = failures
           /\ saveFailed' = saveFailed]_vars

\* C19: a key change whose confirmation differs from the new key leaves the live
\* key and the file as they were, and every key that changeKey installs was, in
\* the same attempt, at least 8 characters long and equal to its confirmation.
C19_MismatchChangesNothing ==
    /\ [][(/\ pc = "changeKey"
           /\ last'.op = "changeKeyInput"
           /\ last'.arg[1] # last'.arg[2])
            => /\ masterKey' = masterKey
               /\ disk' = disk
               /\ failures' = failures
               /\ pc' = "changeKey"]_vars
    /\ [][(pc = "changeKey" /\ masterKey' # masterKey)
            => /\ last'.op = "changeKeyInput"
               /\ masterKey' = last'.arg[1]
               /\ Len(last'.arg[1]) >= 8
               /\ last'.arg[1] = last'.arg[2]]_vars

C19_Witness ==
    /\ last = [op |-> "changeKeyInput", arg |-> <<"eightchr", "short7c">>]
    /\ pc = "changeKey"
    /\ out = "The master key does not match its confirmation. Please try again!"
    /\ masterKey = InitialKey
    /\ disk.key = InitialKey

\* the vault indices of the secrets that match the query
MatchIndices(query) ==
    {i \in 0..(Len(vault.secrets) - 1) : QueryMatches(query, vault.secrets[i + 1])}

\* the vault index of the r-th match in vault order
NthMatch(query, r) ==
    CHOOSE i \in MatchIndices(query) :
        Cardinality({j \in MatchIndices(query) : j < i}) = r - 1

\* result number r of the list shown for the last query opens the r-th match,
\* any other answer opens nothing
SelectionOpensNthMatch ==
    (pc = "searchSelect" /\ last'.op = "searchResultSelection")
        => LET query == last.arg
               answer == last'.arg
           IN IF IsDigit(answer)
                 /\ ParseInt(answer) \in 1..Cardinality(MatchIndices(query))
              THEN /\ pc' = "itemMenu"
                   /\ itemKey' = NthMatch(query, ParseInt(answer))
                   /\ out' = "item shown"
              ELSE pc' = "menu"

\* the query is searched: it is no command and no number of an existing item
OrdinaryQuery(query) ==
    /\ query # <<>>
    /\ query \notin { <<"s">>, <<"a">>, <<"l">>, <<"q">>, <<"b">> }
    /\ ~(IsDigit(query) /\ ParseInt(query) \in 0..(Len(vault.secrets) - 1))

\* C17 as stated: result number r of a query with n >= 2 matches opens the r-th
\* match in vault order and any other answer opens nothing; a query with exactly
\* one match opens that match directly.
C17_EveryQueryOpensMatch ==
    /\ [][SelectionOpensNthMatch]_vars
    /\ [][(/\ pc = "search"
           /\ last'.op = "searchInput"
           /\ last'.arg # <<>>
           /\ Cardinality(MatchIndices(last'.arg)) = 1)
            => (pc' = "itemMenu" /\ itemKey' = NthMatch(last'.arg, 1))]_vars

\* C17 amended: result number r of a query with n >= 2 matches opens the r-th
\* match in vault order and any other answer opens nothing; a query with exactly
\* one match that is none of the commands s, a, l, q, b and no number of an
\* existing item opens that match directly.
C17_SearchedQueryOpensMatch ==
    /\ [][SelectionOpensNthMatch]_vars
    /\ [][(/\ pc = "search"
           /\ last'.op = "searchInput"
           /\ OrdinaryQuery(last'.arg)
           /\ Cardinality(MatchIndices(last'.arg)) = 1)
            => (pc' = "itemMenu" /\ itemKey' = NthMatch(last'.arg, 1))]_vars

C17_Witness ==
    /\ last = [op |-> "searchResultSelection", arg |-> <<"2">>]
    /\ pc = "itemMenu"
    /\ itemKey = 2
    /\ vault.secrets = <<SearchItem3, SearchItem1, SearchItem2>>
    /\ searchResultItems = <<1, 2>>

\* C20: an empty query performs no search, changes nothing and is told apart
\* from a query without matches; a digits-only query that is the index of a
\* secret opens that secret without matching; a digits-only query that is no
\* index of a secret is searched like any other text.
C20_NumericAndEmptyQueries ==
    [][(pc = "search" /\ last'.op = "searchInput")
        => LET query == last'.arg
               n == Cardinality(MatchIndices(query))
           IN /\ query = <<>> =>
                    /\ out' = "Empty search!"
                    /\ pc' = "menu"
                    /\ vault' = vault
                    /\ disk' = disk
                    /\ searchResultItems' = <<>>
              /\ query # <<>> => out' # "Empty search!"
              /\ (OrdinaryQuery(query) /\ n = 0 /\ vault.secrets # <<>>) =>
                    (out' = "No results!" /\ pc' = "menu")
              /\ (IsDigit(query) /\ ParseInt(query) \in 0..(Len(vault.secrets) - 1)) =>
                    /\ pc' = "itemMenu"
                    /\ itemKey' = ParseInt(query)
                    /\ out' = "item shown"
              /\ (IsDigit(query) /\ OrdinaryQuery(query) /\ vault.secrets # <<>>) =>
                    /\ n = 0 => (out' = "No results!" /\ pc' = "menu")
                    /\ n = 1 => (pc' = "itemMenu" /\ itemKey' = NthMatch(query, 1))
                    /\ n >= 2 =>
                          /\ pc' = "searchSelect"
                          /\ Len(searchResultItems') = n
                          /\ \A r \in 1..n : searchResultItems'[r] = NthMatch(query, r)]_vars

C20_Witness ==
    /\ last = [op |-> "searchInput", arg |-> <<"7">>]
    /\ pc = "itemMenu"
    /\ itemKey = 1
    /\ vault.secrets = <<SearchItem1, SearchItem2, SearchItem3>>

====
